---- MODULE Spec2Model ----
(***************************************************************************)
(* The watchdog facade of patroni/watchdog/base.py: the Watchdog manager,  *)
(* its configuration snapshots (WatchdogConfig) and the devices it drives  *)
(* (NullWatchdog and the platform devices behind WatchdogBase).            *)
(*                                                                         *)
(* Every public method of Watchdog runs under the manager's RLock, so one  *)
(* call is one atomic step.  A call is computed by operators that follow   *)
(* the Python statement by statement on a record m of the manager's        *)
(* fields; an exception is an explicit exc flag in the result.             *)
(***************************************************************************)
EXTENDS Integers, Sequences, FiniteSets, TLC

(***************************************************************************)
(* Bounds of the model.                                                    *)
(***************************************************************************)
MaxTTL == 6          \* ttl of every snapshot
MaxLoopWait == 3     \* loop_wait of every snapshot
MaxLeaked == 1       \* open handles that lost their owner, counted up to here

(***************************************************************************)
(* Program constants.                                                      *)
(***************************************************************************)
HalfTTL == -1                 \* safety_margin sentinel: timeout is ttl // 2
NullTimeout == 1000000000     \* NullWatchdog.get_timeout()

MODE_REQUIRED == "required"
MODE_AUTOMATIC == "automatic"
MODE_OFF == "off"

Modes == {MODE_REQUIRED, MODE_AUTOMATIC, MODE_OFF}
TTLs == {MaxTTL}
LoopWaits == {MaxLoopWait}
SafetyMargins == {HalfTTL, 1, MaxTTL - 2}
Drivers == {"default", "other"}
DriverConfigs == {"dev0", "dev1"}

\* platform.system() of the host.
Platform == "Linux"

(***************************************************************************)
(* WatchdogConfig: a snapshot of the configuration.                        *)
(***************************************************************************)
WatchdogConfig ==
    [mode : Modes, ttl : TTLs, loop_wait : LoopWaits,
     safety_margin : SafetyMargins, driver : Drivers,
     driver_config : DriverConfigs]

\* WatchdogConfig.timeout
Timeout(c) ==
    IF c.safety_margin = HalfTTL THEN c.ttl \div 2 ELSE c.ttl - c.safety_margin

\* Faulty variant of TimingSlack: loop_wait is not subtracted.
TimingSlack_NoLoopWait(c) == Timeout(c)

\* WatchdogConfig.timing_slack
TimingSlack(c) == Timeout(c) - c.loop_wait

(***************************************************************************)
(* Devices.  A device object is a record; NullWatchdog is the class of     *)
(* the source, a platform device follows the device contract: its handle   *)
(* is open or not, it reports a timeout, and the hardware behind it (hw)   *)
(* decides whether it can be disabled and whether its timeout can be set.  *)
(***************************************************************************)
HwTimeouts == {MaxLoopWait - 2, MaxLoopWait, MaxTTL + 3}
Hardware ==
    {h \in [can_be_disabled : BOOLEAN, has_set_timeout : BOOLEAN, timeout : HwTimeouts] :
        h.has_set_timeout => h.timeout = MaxTTL + 3}

NullWatchdog ==
    [is_null |-> TRUE, driver |-> "null", driver_config |-> "null",
     opened |-> FALSE, timeout |-> NullTimeout]

PlatformDevice(driver, driver_config, h) ==
    [is_null |-> FALSE, driver |-> driver, driver_config |-> driver_config,
     opened |-> FALSE, timeout |-> h.timeout]

\* WatchdogConfig.get_impl
get_impl(c, h) ==
    IF c.driver = "testing" THEN PlatformDevice(c.driver, c.driver_config, h)
    ELSE IF Platform = "Linux" /\ c.driver = "default"
         THEN PlatformDevice(c.driver, c.driver_config, h)
         ELSE NullWatchdog

\* A platform device, by the device contract.  open() acquires the handle or
\* raises; on a device that is already open a raising open() leaves it open.
\* close() releases the handle and never fails.  keepalive() needs the handle.
\* set_timeout(t) makes t the timeout in effect, or raises.
\* Each result is [dev, exc]: exc = a WatchdogError was raised; fail is the
\* environment's answer for this operation.
PlatformOpen(d, fail) ==
    IF fail THEN [dev |-> d, exc |-> TRUE]
    ELSE [dev |-> [d EXCEPT !.opened = TRUE], exc |-> FALSE]

PlatformClose(d) == [d EXCEPT !.opened = FALSE]

PlatformKeepalive(d, fail) == fail \/ ~d.opened

PlatformSetTimeout(d, t, fail) ==
    IF fail THEN [dev |-> d, exc |-> TRUE]
    ELSE [dev |-> [d EXCEPT !.timeout = t], exc |-> FALSE]

PlatformIsRunning(d) == d.opened

\* The methods of a device object: NullWatchdog and the defaults of
\* WatchdogBase for the Null device, the platform's for any other.
is_running(d) == IF d.is_null THEN FALSE ELSE PlatformIsRunning(d)
can_be_disabled(d, h) == IF d.is_null THEN TRUE ELSE h.can_be_disabled
has_set_timeout(d, h) == IF d.is_null THEN FALSE ELSE h.has_set_timeout
get_timeout(d) == IF d.is_null THEN NullTimeout ELSE d.timeout

\* The identity of a device in the log of device operations.
DevId(d) == <<d.driver, d.driver_config>>

DevOpen(d, fail) ==
    IF d.is_null THEN [dev |-> d, exc |-> FALSE] ELSE PlatformOpen(d, fail)

DevClose(d) == IF d.is_null THEN d ELSE PlatformClose(d)

\* TRUE when keepalive() raises
DevKeepalive(d, fail) == IF d.is_null THEN FALSE ELSE PlatformKeepalive(d, fail)

\* WatchdogBase.set_timeout raises; a device that has_set_timeout overrides it.
DevSetTimeout(d, t, h, fail) ==
    IF ~has_set_timeout(d, h) THEN [dev |-> d, exc |-> TRUE]
    ELSE PlatformSetTimeout(d, t, fail)

(***************************************************************************)
(* The manager.  m holds the fields of a Watchdog object together with     *)
(* two observers: leaked counts the device objects that were dropped by    *)
(* an assignment to self.impl while their handle was open (nothing can     *)
(* close them any more), and ops logs the device operations of the call.   *)
(***************************************************************************)
FailPoints == {"keepalive", "disable_keepalive", "open", "set_timeout"}
Envs == [FailPoints -> BOOLEAN]
\* The environments that differ at the operations in S, the ones a call can reach.
EnvsOf(S) == {e \in Envs : \A p \in FailPoints \ S : ~e[p]}

None == -1   \* the None of Optional[int]

\* The driver selection of snapshot a differs from that of snapshot b
\* (lines 116-117 and 218-219).
DriverDiffers(a, b) == a.driver # b.driver \/ a.driver_config # b.driver_config

\* One device operation of the call: the method, the device it was called on,
\* whether it returned (ok) or raised, and the line of base.py that called it.
Log(m, op, ok, line) ==
    [m EXCEPT !.ops = Append(@, [op |-> op, dev |-> DevId(m.impl),
                                 ok |-> ok, line |-> line])]

\* self.impl = new
SetImpl(m, new) ==
    [m EXCEPT !.impl = new,
              !.leaked = IF is_running(m.impl) THEN @ + 1 ELSE @]

\* A local variable: f maps the value v, computed once, to what follows it.
Let(v, f) == f[v]

\* Faulty variant of _set_timeout: a timeout shorter than loop_wait is only
\* reported, the device is never closed.
_set_timeout_NoDisable(m, h, env) ==
    Let(IF has_set_timeout(m.impl, h)
        THEN Let(DevSetTimeout(m.impl, Timeout(m.config), h, env["set_timeout"]),
                 [st \in Any |-> [m |-> Log([m EXCEPT !.impl = st.dev],
                                        "set_timeout", ~st.exc, 178),
                              exc |-> st.exc]])
        ELSE [m |-> m, exc |-> FALSE],
    [s \in Any |->
        IF s.exc THEN [m |-> s.m, exc |-> TRUE, val |-> None]
        ELSE [m |-> s.m, exc |-> FALSE, val |-> get_timeout(s.m.impl)]])

\* Watchdog._set_timeout: [m, exc, val]
_set_timeout(m, h, env) ==
    Let(IF has_set_timeout(m.impl, h)
        THEN Let(DevSetTimeout(m.impl, Timeout(m.config), h, env["set_timeout"]),
                 [st \in Any |-> [m |-> Log([m EXCEPT !.impl = st.dev],
                                        "set_timeout", ~st.exc, 178),
                              exc |-> st.exc]])
        ELSE [m |-> m, exc |-> FALSE],
    [s \in Any |->
        IF s.exc THEN [m |-> s.m, exc |-> TRUE, val |-> None]
        ELSE Let(get_timeout(s.m.impl), [actual_timeout \in Any |->
            IF is_running(s.m.impl) /\ actual_timeout < s.m.config.loop_wait
               /\ can_be_disabled(s.m.impl, h)
            THEN Let(Log([s.m EXCEPT !.impl = DevClose(s.m.impl)], "close", TRUE, 187),
                     [m2 \in Any |-> [m |-> SetImpl(m2, NullWatchdog),
                                  exc |-> FALSE, val |-> None]])
            ELSE [m |-> s.m, exc |-> FALSE, val |-> actual_timeout]])])

\* Faulty variant of ActivateResult: the timeout read back is not compared.
ActivateResult_NoTimeoutCheck(m, actual_timeout) ==
    IF ~is_running(m.impl) /\ m.config.mode = MODE_REQUIRED THEN FALSE ELSE TRUE

\* Faulty variant of ActivateResult: a device that is not running fails in every mode.
ActivateResult_AnyMode(m, actual_timeout) ==
    IF ~is_running(m.impl) THEN FALSE
    ELSE IF actual_timeout # None /\ actual_timeout # 0
            /\ actual_timeout > Timeout(m.config)
            /\ m.config.mode = MODE_REQUIRED
    THEN FALSE
    ELSE TRUE

\* lines 152-174 of Watchdog._activate: the value it returns
ActivateResult(m, actual_timeout) ==
    IF (~is_running(m.impl)
        \/ (actual_timeout # None /\ actual_timeout # 0
            /\ actual_timeout > Timeout(m.config)))
       /\ m.config.mode = MODE_REQUIRED
    THEN FALSE
    ELSE IF ~is_running(m.impl) /\ m.config.mode = MODE_REQUIRED
    THEN FALSE
    ELSE TRUE

\* Faulty variant of ActivateExcept: the device that failed is kept.
ActivateExcept_KeepDevice(m) == m

\* lines 142-146 of Watchdog._activate: except WatchdogError
ActivateExcept(m) == SetImpl(m, NullWatchdog)

\* Watchdog._activate: [m, ret]
_activate(m, h, env) ==
    Let(IF TimingSlack(m.config) < 0
        THEN SetImpl([m EXCEPT !.active_config = m.config], NullWatchdog)
        ELSE [m EXCEPT !.active_config = m.config],
    [m2 \in Any |->
    Let(DevOpen(m2.impl, env["open"]),
    [o \in Any |->
    Let(Log([m2 EXCEPT !.impl = o.dev], "open", ~o.exc, 140),
    [m3 \in Any |->
    \* try: open(); actual_timeout = _set_timeout()
    Let(IF o.exc THEN [m |-> m3, exc |-> TRUE, val |-> None]
        ELSE _set_timeout(m3, h, env),
    [t \in Any |->
    Let(IF t.exc THEN ActivateExcept(t.m) ELSE t.m,
    [m4 \in Any |->
        [m |-> m4,
         ret |-> ActivateResult(m4, IF t.exc THEN get_timeout(m4.impl) ELSE t.val)]])])])])])

\* Watchdog.activate
activate(m, h, env) == _activate([m EXCEPT !.active = TRUE], h, env)

\* Faulty variant of _disable: the final keepalive is sent whether or not the
\* device is running.
_disable_KeepaliveWhenClosed(m, h, env) ==
    IF ~can_be_disabled(m.impl, h)
    THEN Let(DevKeepalive(m.impl, env["disable_keepalive"]),
         [exc \in Any |->
            IF exc THEN Log(m, "keepalive", FALSE, 201)
            ELSE Let(Log(m, "keepalive", TRUE, 201),
                 [m1 \in Any |-> Log([m1 EXCEPT !.impl = DevClose(m1.impl)],
                                 "close", TRUE, 204)])])
    ELSE Log([m EXCEPT !.impl = DevClose(m.impl)], "close", TRUE, 204)

\* Watchdog._disable
_disable(m, h, env) ==
    IF is_running(m.impl) /\ ~can_be_disabled(m.impl, h)
    THEN Let(DevKeepalive(m.impl, env["disable_keepalive"]),
         [exc \in Any |->
            IF exc THEN Log(m, "keepalive", FALSE, 201)
            ELSE Let(Log(m, "keepalive", TRUE, 201),
                 [m1 \in Any |-> Log([m1 EXCEPT !.impl = DevClose(m1.impl)],
                                 "close", TRUE, 204)])])
    ELSE Log([m EXCEPT !.impl = DevClose(m.impl)], "close", TRUE, 204)

\* Watchdog.disable
disable(m, h, env) == [_disable(m, h, env) EXCEPT !.active = FALSE]

\* lines 115-119 of Watchdog.reload_config: not active, apply at once
ReloadInactive(m, h) ==
    IF ~m.active
    THEN IF DriverDiffers(m.config, m.active_config)
         THEN [SetImpl(m, get_impl(m.config, h)) EXCEPT !.active_config = m.config]
         ELSE [m EXCEPT !.active_config = m.config]
    ELSE m

\* Faulty variant of reload_config: mode Off disables the device but keeps it owned.
reload_config_OffKeepsDevice(m, c, h, env) ==
    Let(IF c.mode = MODE_OFF
        THEN Let(IF m.active THEN _disable([m EXCEPT !.config = c], h, env)
                 ELSE [m EXCEPT !.config = c],
             [d \in Any |-> [d EXCEPT !.active_config = d.config]])
        ELSE [m EXCEPT !.config = c],
    [m2 \in Any |-> ReloadInactive(m2, h)])

\* Faulty variant of reload_config: mode Off is not applied at once while active.
reload_config_Deferred(m, c, h, env) ==
    Let(IF c.mode = MODE_OFF /\ ~m.active
        THEN SetImpl([m EXCEPT !.config = c, !.active_config = c], NullWatchdog)
        ELSE [m EXCEPT !.config = c],
    [m2 \in Any |-> ReloadInactive(m2, h)])

\* Faulty variant of reload_config: a changed driver is applied at once, active or not.
reload_config_Eager(m, c, h, env) ==
    Let(IF c.mode = MODE_OFF
        THEN Let(IF m.active THEN _disable([m EXCEPT !.config = c], h, env)
                 ELSE [m EXCEPT !.config = c],
             [d \in Any |-> SetImpl([d EXCEPT !.active_config = d.config], NullWatchdog)])
        ELSE [m EXCEPT !.config = c],
    [m2 \in Any |->
    Let(IF DriverDiffers(m2.config, m2.active_config)
        THEN SetImpl(m2, get_impl(m2.config, h))
        ELSE m2,
    [m3 \in Any |-> IF ~m3.active THEN [m3 EXCEPT !.active_config = m3.config] ELSE m3])])

\* Watchdog.reload_config
reload_config(m, c, h, env) ==
    Let(IF c.mode = MODE_OFF
        THEN Let(IF m.active THEN _disable([m EXCEPT !.config = c], h, env)
                 ELSE [m EXCEPT !.config = c],
             [d \in Any |-> SetImpl([d EXCEPT !.active_config = d.config], NullWatchdog)])
        ELSE [m EXCEPT !.config = c],
    [m2 \in Any |-> ReloadInactive(m2, h)])

\* Watchdog.keepalive, lines 214-228: the pending configuration changes.
\* [m, exc]
Reconcile(m, h, env) ==
    \* lines 215-217
    Let(IF m.config.mode # MODE_OFF /\ m.active_config.mode = MODE_OFF
        THEN Let(SetImpl(m, get_impl(m.config, h)),
                 [n \in Any |-> _activate(n, h, env).m])
        ELSE m,
    [ma \in Any |->
    \* lines 218-222
    Let(IF DriverDiffers(ma.config, ma.active_config)
        THEN Let(_disable(ma, h, env),
             [d \in Any |-> Let(SetImpl(d, get_impl(d.config, h)),
                            [n \in Any |-> _activate(n, h, env).m])])
        ELSE ma,
    [mb \in Any |->
    \* lines 223-227
    IF Timeout(mb.config) # Timeout(mb.active_config)
    THEN Let(DevSetTimeout(mb.impl, Timeout(mb.config), h, env["set_timeout"]),
         [st \in Any |->
         Let(Log([mb EXCEPT !.impl = st.dev], "set_timeout", ~st.exc, 224),
         [mc \in Any |->
            IF st.exc THEN [m |-> mc, exc |-> TRUE]
            ELSE [m |-> [mc EXCEPT !.active_config = mc.config], exc |-> FALSE]])])
    ELSE [m |-> [mb EXCEPT !.active_config = mb.config], exc |-> FALSE]])])

\* Faulty variant of KeepaliveBody: a manager that fell back to the Null
\* device selects and activates the configured device again on every call.
KeepaliveBody_RetryOnNull(m, h, env) ==
    IF m.active
    THEN Let(DevKeepalive(m.impl, env["keepalive"]),
         [exc \in Any |->
            IF exc THEN [m |-> Log(m, "keepalive", FALSE, 212), exc |-> TRUE]
            ELSE Let(Log(m, "keepalive", TRUE, 212),
                 [m1 \in Any |->
                    IF m1.config # m1.active_config
                    THEN Reconcile(m1, h, env)
                    ELSE IF m1.impl.is_null
                    THEN Let(SetImpl(m1, get_impl(m1.config, h)),
                             [n \in Any |-> [m |-> _activate(n, h, env).m, exc |-> FALSE]])
                    ELSE [m |-> m1, exc |-> FALSE]])])
    ELSE [m |-> m, exc |-> FALSE]

\* Watchdog.keepalive, lines 211-228: the body of the try.  [m, exc]
KeepaliveBody(m, h, env) ==
    IF m.active
    THEN Let(DevKeepalive(m.impl, env["keepalive"]),
         [exc \in Any |->
            IF exc THEN [m |-> Log(m, "keepalive", FALSE, 212), exc |-> TRUE]
            ELSE Let(Log(m, "keepalive", TRUE, 212),
                 [m1 \in Any |->
                    IF m1.active /\ m1.config # m1.active_config
                    THEN Reconcile(m1, h, env)
                    ELSE [m |-> m1, exc |-> FALSE]])])
    ELSE [m |-> m, exc |-> FALSE]

\* Faulty variant of keepalive: no except clause, the WatchdogError goes to the caller.
keepalive_NoExcept(m, h, env) == KeepaliveBody(m, h, env)

\* Watchdog.keepalive: except WatchdogError logs the error.  [m, exc]
keepalive(m, h, env) ==
    [m |-> KeepaliveBody(m, h, env).m, exc |-> FALSE]

\* WatchdogBase.is_healthy, which NullWatchdog inherits; healthy is the answer
\* of a platform device, whose open() is or is not expected to succeed.
DevIsHealthy(d, healthy) == IF d.is_null THEN FALSE ELSE healthy

\* Watchdog.is_healthy
is_healthy(m, healthy) ==
    IF m.config.mode # MODE_REQUIRED THEN TRUE
    ELSE TimingSlack(m.config) >= 0 /\ DevIsHealthy(m.impl, healthy)

(***************************************************************************)
(* The state machine.                                                      *)
(***************************************************************************)
VARIABLES
    config,         \* Watchdog.config
    active_config,  \* Watchdog.active_config
    active,         \* Watchdog.active
    impl,           \* Watchdog.impl
    leaked,         \* device objects dropped with their handle open
    hw,             \* the watchdog hardware of the host
    lastCall,       \* the public method called last
    ret,            \* what activate() returned, when it was the last call
    raised,         \* the last call let a WatchdogError out
    repeated,       \* the last call was a disable() directly after a disable()
    ops,            \* the device operations of the last call, in order
    lock,           \* Watchdog.lock: the thread that owns the RLock and its depth
    pc,             \* the line of base.py each thread of LockSpec is at
    arg,            \* the snapshot a reload_config() in progress was called with
    seen            \* what the reader saw at its last read

vars == <<config, active_config, active, impl, leaked, hw, lastCall, ret, raised,
         repeated, ops, lock, pc, arg, seen>>

\* The threads of LockSpec: the liveness loop, the configuration reload and
\* a health-check reader.
Threads == {"liveness", "reload", "reader"}

\* The manager's fields at the start of a call.
Self ==
    [config |-> config, active_config |-> active_config, active |-> active,
     impl |-> impl, leaked |-> leaked, ops |-> <<>>]

\* The manager's fields at the end of a call.
Store(m) ==
    /\ m.leaked <= MaxLeaked
    /\ config' = m.config
    /\ active_config' = m.active_config
    /\ active' = m.active
    /\ impl' = m.impl
    /\ leaked' = m.leaked
    /\ ops' = m.ops
    /\ hw' = hw
    /\ UNCHANGED <<lock, pc, arg, seen>>

\* Watchdog.__init__
Init ==
    /\ hw \in Hardware
    /\ config \in WatchdogConfig
    /\ active_config = config
    /\ active = FALSE
    /\ impl = IF config.mode = MODE_OFF THEN NullWatchdog ELSE get_impl(config, hw)
    /\ ~(config.mode = MODE_REQUIRED /\ impl.is_null)    \* sys.exit(1)
    /\ leaked = 0
    /\ lastCall = "__init__"
    /\ ret = TRUE
    /\ raised = FALSE
    /\ repeated = FALSE
    /\ ops = <<>>
    /\ lock = [owner |-> "none", count |-> 0]    \* self.lock = RLock()
    /\ pc = [t \in Threads |-> "idle"]
    /\ arg = "none"
    /\ seen = [active |-> FALSE, mode |-> MODE_OFF, is_null |-> TRUE,
               is_running |-> FALSE]                 \* nothing read yet

Activate ==
    \E env \in EnvsOf({"open", "set_timeout"}) :
        \E r \in {activate(Self, hw, env)} :
            /\ Store(r.m)
            /\ lastCall' = "activate"
            /\ repeated' = FALSE
            /\ ret' = r.ret
            /\ raised' = FALSE

Keepalive ==
    \E env \in Envs :
        \E r \in {keepalive(Self, hw, env)} :
            /\ Store(r.m)
            /\ lastCall' = "keepalive"
            /\ repeated' = FALSE
            /\ ret' = TRUE
            /\ raised' = r.exc

Disable ==
    \E env \in EnvsOf(IF is_running(impl) THEN {"disable_keepalive"} ELSE {}) :
        \E m \in {disable(Self, hw, env)} :
            /\ Store(m)
            /\ lastCall' = "disable"
            /\ repeated' = (lastCall = "disable")
            /\ ret' = TRUE
            /\ raised' = FALSE

ReloadConfig ==
    \E c \in WatchdogConfig,
       env \in EnvsOf(IF active /\ is_running(impl) THEN {"disable_keepalive"} ELSE {}) :
        \E m \in {reload_config(Self, c, hw, env)} :
            /\ Store(m)
            /\ lastCall' = "reload_config"
            /\ repeated' = FALSE
            /\ ret' = TRUE
            /\ raised' = FALSE

Next == Activate \/ Keepalive \/ Disable \/ ReloadConfig

Spec == Init /\ [][Next]_vars

(***************************************************************************)
(* The same manager called from three threads.  Every public method is     *)
(* wrapped by synchronized: "with self.lock" acquires the RLock, runs the  *)
(* body and releases it.  A body is split at the statements between which  *)
(* the fields are out of step: activate() sets active before it runs the   *)
(* activation sequence, disable() clears it after the disable sequence,    *)
(* reload_config() replaces config before it updates the device.  The      *)
(* activation sequence and keepalive() read the is_running property of     *)
(* the manager (lines 166 and 225), which takes the lock again.            *)
(***************************************************************************)
\* The snapshots the reload thread delivers and the device errors of LockSpec.
ReloadConfigs ==
    {c \in WatchdogConfig : c.driver = "default" /\ c.safety_margin \in {HalfTTL, 1}}
LockEnvs == EnvsOf({"open"})

\* Faulty variant of CanAcquire: the lock is given to whoever asks.
CanAcquire_Always(t) == TRUE

\* RLock.acquire() returns for thread t: the lock is free or t owns it.
CanAcquire(t) == lock.owner \in {"none", t}

\* with self.lock: entry and exit
Acquire(t) ==
    [owner |-> t, count |-> IF lock.owner = t THEN lock.count + 1 ELSE 1]
Release(t) ==
    IF lock.count <= 1 THEN [owner |-> "none", count |-> 0]
    ELSE [lock EXCEPT !.count = @ - 1]

\* The fields a step of a body leaves behind.
Commit(m) ==
    /\ m.leaked <= MaxLeaked
    /\ config' = m.config
    /\ active_config' = m.active_config
    /\ active' = m.active
    /\ impl' = m.impl
    /\ leaked' = m.leaked
    /\ UNCHANGED <<hw, lastCall, ret, raised, repeated, ops>>

Goto(t, label) == pc' = [pc EXCEPT ![t] = label]

\* Thread t is inside the body of a public method.
InBody(t) == pc[t] # "idle"

\* The activation sequence reached line 166, where it reads self.is_running:
\* it did not return at line 160.
Reaches166(m) ==
    ~(/\ m.config.mode = MODE_REQUIRED
      /\ (~is_running(m.impl) \/ get_timeout(m.impl) > Timeout(m.config)))

\* keepalive() read self.is_running: in an activation sequence it ran, or at
\* line 225 after set_timeout returned.
KeepaliveReenters(m) ==
    \/ (\E i \in 1..Len(m.ops) : m.ops[i].line = 140) /\ Reaches166(m)
    \/ \E i \in 1..Len(m.ops) : m.ops[i].line = 224 /\ m.ops[i].ok

\* synchronized: "with self.lock" on entry of a public method
Enter(t, label) ==
    /\ pc[t] = "idle"
    /\ CanAcquire(t)
    /\ lock' = Acquire(t)
    /\ Goto(t, label)

\* activate(), lines 128 and 129
BeginActivate ==
    /\ Enter("liveness", "activate_128")
    /\ UNCHANGED <<config, active_config, active, impl, leaked, hw, lastCall, ret,
                   raised, repeated, ops, arg, seen>>

Activate128 ==
    /\ pc["liveness"] = "activate_128"
    /\ Commit([Self EXCEPT !.active = TRUE])
    /\ Goto("liveness", "activate_129")
    /\ UNCHANGED <<lock, arg, seen>>

Activate129 ==
    /\ pc["liveness"] = "activate_129"
    /\ \E env \in LockEnvs :
          \E r \in {_activate(Self, hw, env)} :
              /\ Commit(r.m)
              /\ Goto("liveness", IF r.ret THEN "is_running" ELSE "return")
    /\ UNCHANGED <<lock, arg, seen>>

\* keepalive()
BeginKeepalive ==
    /\ Enter("liveness", "keepalive_211")
    /\ UNCHANGED <<config, active_config, active, impl, leaked, hw, lastCall, ret,
                   raised, repeated, ops, arg, seen>>

Keepalive211 ==
    /\ pc["liveness"] = "keepalive_211"
    /\ \E env \in LockEnvs :
          \E r \in {keepalive(Self, hw, env)} :
              /\ Commit(r.m)
              /\ Goto("liveness", IF KeepaliveReenters(r.m) THEN "is_running"
                                  ELSE "return")
    /\ UNCHANGED <<lock, arg, seen>>

\* disable(), lines 194 and 195
BeginDisable ==
    /\ Enter("liveness", "disable_194")
    /\ UNCHANGED <<config, active_config, active, impl, leaked, hw, lastCall, ret,
                   raised, repeated, ops, arg, seen>>

Disable194 ==
    /\ pc["liveness"] = "disable_194"
    /\ \E env \in LockEnvs :
          \E m \in {_disable(Self, hw, env)} : Commit(m)
    /\ Goto("liveness", "disable_195")
    /\ UNCHANGED <<lock, arg, seen>>

Disable195 ==
    /\ pc["liveness"] = "disable_195"
    /\ Commit([Self EXCEPT !.active = FALSE])
    /\ Goto("liveness", "return")
    /\ UNCHANGED <<lock, arg, seen>>

\* The is_running property read inside a body (lines 166 and 225): the
\* thread takes the lock it holds once more, reads, and leaves it.
IsRunningEnter ==
    /\ pc["liveness"] = "is_running"
    /\ CanAcquire("liveness")
    /\ lock' = Acquire("liveness")
    /\ Goto("liveness", "is_running_234")
    /\ UNCHANGED <<config, active_config, active, impl, leaked, hw, lastCall, ret,
                   raised, repeated, ops, arg, seen>>

IsRunningExit ==
    /\ pc["liveness"] = "is_running_234"
    /\ lock' = Release("liveness")
    /\ Goto("liveness", "return")
    /\ UNCHANGED <<config, active_config, active, impl, leaked, hw, lastCall, ret,
                   raised, repeated, ops, arg, seen>>

\* reload_config(c), line 106 and lines 108-119
BeginReload ==
    /\ Enter("reload", "reload_106")
    /\ arg' \in ReloadConfigs
    /\ UNCHANGED <<config, active_config, active, impl, leaked, hw, lastCall, ret,
                   raised, repeated, ops, seen>>

Reload106 ==
    /\ pc["reload"] = "reload_106"
    /\ Commit([Self EXCEPT !.config = arg])
    /\ Goto("reload", "reload_108")
    /\ UNCHANGED <<lock, arg, seen>>

Reload108 ==
    /\ pc["reload"] = "reload_108"
    /\ \E env \in LockEnvs :
          \E m \in {reload_config(Self, config, hw, env)} : Commit(m)
    /\ Goto("reload", "return")
    /\ UNCHANGED <<lock, arg, seen>>

\* The reader: the is_running and is_healthy properties
BeginRead ==
    /\ Enter("reader", "read")
    /\ UNCHANGED <<config, active_config, active, impl, leaked, hw, lastCall, ret,
                   raised, repeated, ops, arg, seen>>

Read ==
    /\ pc["reader"] = "read"
    /\ seen' = [active |-> active, mode |-> config.mode, is_null |-> impl.is_null,
                is_running |-> is_running(impl)]
    /\ Goto("reader", "return")
    /\ UNCHANGED <<config, active_config, active, impl, leaked, hw, lastCall, ret,
                   raised, repeated, ops, lock, arg>>

\* synchronized: leaving "with self.lock" when the method returns
Return(t) ==
    /\ pc[t] = "return"
    /\ lock' = Release(t)
    /\ Goto(t, "idle")
    /\ UNCHANGED <<config, active_config, active, impl, leaked, hw, lastCall, ret,
                   raised, repeated, ops, arg, seen>>

ReturnLiveness == Return("liveness")
ReturnReload == Return("reload")
ReturnReader == Return("reader")

LockNext ==
    \/ BeginActivate \/ Activate128 \/ Activate129
    \/ BeginKeepalive \/ Keepalive211
    \/ BeginDisable \/ Disable194 \/ Disable195
    \/ IsRunningEnter \/ IsRunningExit
    \/ BeginReload \/ Reload106 \/ Reload108
    \/ BeginRead \/ Read
    \/ ReturnLiveness \/ ReturnReload \/ ReturnReader

LockSpec == Init /\ [][LockNext]_vars

(***************************************************************************)
(* The claims.                                                             *)
(***************************************************************************)
\* The operations of the last call that match op, in call order.
OpsAt(line) == {i \in 1..Len(ops) : ops[i].line = line}
Failed(line) == \E i \in OpsAt(line) : ~ops[i].ok
Succeeded(line) == \E i \in OpsAt(line) : ops[i].ok

\* The device handles that are open: the owned one and the ownerless ones.
OpenDevices == leaked + (IF is_running(impl) THEN 1 ELSE 0)

\* C1: at most one device is open at a time and every open device is the
\* one the manager owns: a device is closed before it is replaced.
C1_ExclusiveDevice == OpenDevices <= 1 /\ leaked = 0

\* C2 (as claimed): whenever the owned device is running, the timeout it
\* reports is not longer than the ttl of the configuration it was armed with.
C2_TimeoutWithinTTL == is_running(impl) => get_timeout(impl) <= active_config.ttl

\* C2 (amended): right after activate() returned true in Required mode the
\* device is running and reports a timeout of at most config.timeout, hence at
\* most ttl; and right after a call whose set_timeout succeeded (line 178 of
\* the activation sequence or line 224 of keepalive) a running device reports
\* exactly config.timeout.
C2_ArmedTimeoutSafe ==
    /\ (lastCall = "activate" /\ ret /\ config.mode = MODE_REQUIRED)
          => /\ is_running(impl)
             /\ get_timeout(impl) <= Timeout(config)
             /\ get_timeout(impl) <= config.ttl
    /\ ((Succeeded(178) \/ Succeeded(224)) /\ is_running(impl))
          => /\ get_timeout(impl) = Timeout(config)
             /\ get_timeout(impl) <= config.ttl

C2_Witness ==
    /\ lastCall = "activate" /\ ret /\ config.mode = MODE_REQUIRED
    /\ ~hw.has_set_timeout /\ is_running(impl)

\* C3: activate() returns false exactly when the mode is Required and the
\* device it ends with is Null, or not running, or reports a timeout above
\* config.timeout; afterwards active is true and active_config is config.
C3_ActivateResult ==
    lastCall = "activate" =>
        /\ active
        /\ active_config = config
        /\ ret = ~(/\ config.mode = MODE_REQUIRED
                   /\ \/ impl.is_null
                      \/ ~is_running(impl)
                      \/ get_timeout(impl) > Timeout(config))

C3_Witness ==
    /\ lastCall = "activate" /\ ~ret
    /\ is_running(impl) /\ get_timeout(impl) > Timeout(config)

\* C4: whenever active is false no real device is left open.
C4_InactiveClosed == ~active => (~is_running(impl) /\ leaked = 0)

\* C5: reload_config() to mode Off while active runs the disable sequence on
\* the owned device in that call (its operations are those of _disable on that
\* device, ending with close unless the final keepalive raised) and leaves
\* the Null device owned, not running, with active_config equal to config.
C5_ReloadOffDisables ==
    [][(lastCall' = "reload_config" /\ active /\ config'.mode = MODE_OFF)
          => /\ impl' = NullWatchdog
             /\ ~is_running(impl')
             /\ active_config' = config'
             /\ active'
             /\ Len(ops') >= 1
             /\ \A i \in 1..Len(ops') :
                    ops'[i].dev = DevId(impl) /\ ops'[i].line \in {201, 204}
             /\ LET last == ops'[Len(ops')]
                IN  \/ last.op = "close"
                    \/ last.op = "keepalive" /\ ~last.ok]_vars

C5_Witness ==
    /\ lastCall = "reload_config" /\ active /\ config.mode = MODE_OFF
    /\ \E i \in 1..Len(ops) : ops[i].op = "close" /\ ops[i].dev[1] # "null"

\* C6: reload_config() while active with a mode other than Off and a changed
\* driver or driver_config replaces config only: the owned device, its open
\* handle, active and active_config stay as they are and no device operation
\* is performed; and while the manager stays active no call other than
\* keepalive() installs a device of another driver selection.
C6_ReloadDefersDriver ==
    [][/\ (/\ lastCall' = "reload_config" /\ active /\ config'.mode # MODE_OFF
           /\ (DriverDiffers(config', config) \/ DriverDiffers(config', active_config)))
          => /\ impl' = impl
             /\ active' = active
             /\ active_config' = active_config
             /\ leaked' = leaked
             /\ ops' = <<>>
       /\ (active /\ active' /\ lastCall' # "keepalive")
          => (DevId(impl') = DevId(impl) \/ impl' = NullWatchdog)]_vars

C6_Witness ==
    /\ lastCall = "reload_config" /\ active /\ config.mode # MODE_OFF
    /\ DriverDiffers(config, active_config)
    /\ is_running(impl)
    /\ DevId(impl) # DevId(get_impl(config, hw))

\* The number of operations of the last call made at a line of base.py.
CountAt(o, line) == Cardinality({i \in 1..Len(o) : o[i].line = line})

\* The keepalive of the owned device at line 212 returned in the call that
\* logged o, so the call went on to the pending configuration changes.
Reached(o) == \E i \in 1..Len(o) : o[i].line = 212 /\ o[i].ok

\* C7: the first keepalive() after a reload that changed the driver selection
\* while active and running closes the old device exactly once and then opens
\* a device exactly once; no keepalive() runs the activation sequence twice or
\* calls set_timeout in place after it; a keepalive() that follows a
\* keepalive() closes and opens nothing.  Stated for the calls whose
\* keepalive of the device returned.
C7_SwitchExactlyOnce ==
    [][(lastCall' = "keepalive" /\ Reached(ops')) =>
        /\ (active /\ is_running(impl) /\ DriverDiffers(config, active_config))
              => /\ CountAt(ops', 204) = 1
                 /\ CountAt(ops', 140) = 1
                 /\ \A i, j \in 1..Len(ops') :
                        (ops'[i].line = 204 /\ ops'[j].line = 140)
                           => (i < j /\ ops'[i].dev = DevId(impl))
        /\ CountAt(ops', 140) <= 1
        /\ ~(CountAt(ops', 140) >= 1 /\ CountAt(ops', 224) >= 1)
        /\ (lastCall = "keepalive" /\ Reached(ops))
              => \A i \in 1..Len(ops') : ops'[i].op \notin {"open", "close"}]_vars

\* C8: keepalive() never lets a WatchdogError out, whichever device
\* operation raised in it.
C8_KeepaliveNeverRaises == lastCall = "keepalive" => ~raised

C8_Witness ==
    /\ lastCall = "keepalive" /\ ~raised
    /\ \E i \in 1..Len(ops) : ~ops[i].ok /\ ops[i].line \in {212, 224}

\* C9: when open() or set_timeout() raised in the activation sequence, the
\* sequence ends with the Null device owned and not running, and activate()
\* returns false in Required mode and true in Automatic mode.
C9_FailedActivationFallsBack ==
    (lastCall \in {"activate", "keepalive"} /\ (Failed(140) \/ Failed(178)))
       => /\ impl = NullWatchdog
          /\ ~is_running(impl)
          /\ lastCall = "activate" =>
                /\ config.mode = MODE_REQUIRED => ~ret
                /\ config.mode = MODE_AUTOMATIC => ret

C9_Witness ==
    /\ lastCall = "activate" /\ Failed(178)
    /\ config.mode = MODE_AUTOMATIC /\ ret /\ impl = NullWatchdog

\* C10: in Required mode an activation that ends with a running device whose
\* timeout is longer than config.timeout or shorter than loop_wait makes
\* activate() return false.
C10_UnsafeTimeoutFails ==
    (/\ lastCall = "activate" /\ config.mode = MODE_REQUIRED
     /\ is_running(impl)
     /\ \/ get_timeout(impl) > Timeout(config)
        \/ get_timeout(impl) < config.loop_wait)
       => ~ret

\* C11: disable() on a running device that cannot be disabled sends exactly
\* one keepalive to it and then calls close() on it, in that order; on a
\* device that can be disabled it calls close() only; active is false afterwards.
C11_DisableKeepaliveThenClose ==
    [][lastCall' = "disable" =>
        /\ ~active'
        /\ (is_running(impl) /\ ~can_be_disabled(impl, hw))
              => /\ Len(ops') = 2
                 /\ ops'[1].op = "keepalive" /\ ops'[1].dev = DevId(impl)
                 /\ ops'[2].op = "close" /\ ops'[2].dev = DevId(impl)
        /\ can_be_disabled(impl, hw)
              => /\ Len(ops') = 1
                 /\ ops'[1].op = "close" /\ ops'[1].dev = DevId(impl)]_vars

\* C12 (as claimed): a disable() directly after a disable() issues no device
\* operation at all and leaves active, the owned device, config and
\* active_config unchanged.
C12_DisableIdempotent ==
    [][(lastCall = "disable" /\ lastCall' = "disable")
          => /\ ops' = <<>>
             /\ active' = active /\ impl' = impl
             /\ config' = config /\ active_config' = active_config]_vars

\* C12 (amended): a disable() directly after a disable() leaves active, config
\* and active_config unchanged and calls no open and no set_timeout; on the
\* device the first call left not running it calls close() once more, which
\* changes nothing, and no keepalive; only a device that is still running,
\* because the keepalive of the first call raised, gets the disable sequence
\* (keepalive, then close) again.
C12_SecondDisableClosesOnly ==
    [][(lastCall = "disable" /\ lastCall' = "disable")
          => /\ active' = active /\ ~active'
             /\ config' = config /\ active_config' = active_config
             /\ leaked' = leaked
             /\ \A i \in 1..Len(ops') :
                    /\ ops'[i].op \in {"keepalive", "close"}
                    /\ ops'[i].dev = DevId(impl)
             /\ ~is_running(impl)
                   => /\ impl' = impl
                      /\ Len(ops') = 1
                      /\ ops'[1].op = "close" /\ ops'[1].line = 204
             /\ is_running(impl)
                   => /\ ~can_be_disabled(impl, hw)
                      /\ Failed(201)
                      /\ ops'[1].op = "keepalive" /\ ops'[1].line = 201]_vars

C12_Witness ==
    /\ repeated /\ lastCall = "disable" /\ ~active
    /\ ~impl.is_null /\ ~is_running(impl)
    /\ Len(ops) = 1 /\ ops[1].op = "close"

\* C14: whenever keepalive() has returned while active is true, active_config
\* equals config: the call consumed every pending configuration change.
C14_KeepaliveConsumesChanges ==
    (lastCall = "keepalive" /\ active) => active_config = config

\* C15: a keepalive() called while active is false, or while active is true
\* and config equals active_config, performs no open, close or set_timeout and
\* leaves the owned device, active, config and active_config unchanged: when
\* active it sends one keepalive to the owned device, when inactive none.
C15_KeepaliveNoRetry ==
    [][(lastCall' = "keepalive" /\ (~active \/ config = active_config))
          => /\ impl' = impl
             /\ active' = active
             /\ config' = config
             /\ active_config' = active_config
             /\ leaked' = leaked
             /\ Len(ops') = (IF active THEN 1 ELSE 0)
             /\ \A i \in 1..Len(ops') :
                    /\ ops'[i].op = "keepalive" /\ ops'[i].line = 212
                    /\ ops'[i].dev = DevId(impl)]_vars

\* A manager that an activation failure left on the Null device, with a
\* real device configured, after a keepalive() that only sent the keepalive.
C15_Witness ==
    /\ lastCall = "keepalive" /\ active /\ config = active_config
    /\ impl = NullWatchdog /\ ~get_impl(config, hw).is_null
    /\ TimingSlack(config) >= 0 /\ config.mode = MODE_AUTOMATIC
    /\ Len(ops) = 1 /\ ops[1].op = "keepalive"

\* The activation sequence of the last call opened a real device and its
\* set_timeout, if any, returned: the device was running when its timeout
\* was read back.
OpenedReal ==
    /\ lastCall \in {"activate", "keepalive"}
    /\ \E i \in OpsAt(140) : ops[i].ok /\ ops[i].dev # DevId(NullWatchdog)
    /\ ~Failed(178)

\* C16: when the activation sequence ends up after open/set_timeout with a
\* running device whose timeout is shorter than loop_wait, a device that can
\* be disabled is closed and the manager falls back to the Null device; a
\* device that cannot be disabled is left open and running and stays owned.
C16_ShortTimeoutDisables ==
    (/\ OpenedReal
     /\ (IF hw.has_set_timeout THEN Timeout(config) ELSE hw.timeout) < config.loop_wait)
       => IF hw.can_be_disabled
          THEN /\ impl = NullWatchdog /\ ~is_running(impl)
               /\ CountAt(ops, 187) = 1
               /\ \A i \in OpsAt(140), j \in OpsAt(187) :
                      i < j /\ ops[j].dev = ops[i].dev
          ELSE /\ is_running(impl)
               /\ CountAt(ops, 187) = 0
               /\ \A i \in OpsAt(140) : DevId(impl) = ops[i].dev
               /\ get_timeout(impl) < config.loop_wait

C16_Witness ==
    /\ OpenedReal /\ lastCall = "activate"
    /\ hw.can_be_disabled /\ hw.timeout < config.loop_wait
    /\ impl = NullWatchdog /\ CountAt(ops, 187) = 1

\* C17: whenever the activation sequence ran in the last call with a config
\* whose timeout is below loop_wait (negative timing slack), every device it
\* opened is the Null device, the manager owns the Null device and is not
\* running, activate() returned false in Required mode and true otherwise,
\* and is_healthy is false in Required mode whatever the device answers.
C17_NegativeSlackForcesNull ==
    (/\ lastCall \in {"activate", "keepalive"}
     /\ CountAt(ops, 140) >= 1
     /\ Timeout(config) - config.loop_wait < 0)
       => /\ \A i \in 1..Len(ops) :
                 ops[i].op = "open" => ops[i].dev = DevId(NullWatchdog)
          /\ impl = NullWatchdog
          /\ ~is_running(impl)
          /\ lastCall = "activate" => (ret <=> config.mode # MODE_REQUIRED)
          /\ config.mode = MODE_REQUIRED
                => \A healthy \in BOOLEAN : ~is_healthy(Self, healthy)

\* The activation run by keepalive() for a Required config with negative
\* slack whose driver selects a real device.
C17_Witness ==
    /\ lastCall = "keepalive" /\ CountAt(ops, 140) >= 1
    /\ Timeout(config) - config.loop_wait < 0
    /\ config.mode = MODE_REQUIRED /\ ~get_impl(config, hw).is_null
    /\ impl = NullWatchdog

\* C18: no operation of the Null device raises: every device operation
\* that a manager call made on the Null device returned.
C18_NullNeverRaises ==
    \A i \in 1..Len(ops) : ops[i].dev = DevId(NullWatchdog) => ops[i].ok

\* C19: in every state where config.mode is Off the manager owns the Null
\* device, is not running and active_config equals config; and no call made
\* while the mode is Off opens a real device.
C19_OffMeansNull ==
    config.mode = MODE_OFF
       => /\ impl = NullWatchdog
          /\ ~is_running(impl)
          /\ active_config = config
          /\ \A i \in 1..Len(ops) :
                 ops[i].op = "open" => ops[i].dev = DevId(NullWatchdog)

\* activate() in mode Off with a driver that selects a real device.
C19_Witness ==
    /\ config.mode = MODE_OFF /\ lastCall = "activate" /\ active /\ ret
    /\ ~get_impl(config, hw).is_null
    /\ Succeeded(140) /\ impl = NullWatchdog

\* C20: a reload_config() that changes the mode from Off to Automatic or
\* Required while the manager is inactive re-selects the device from the new
\* config, also when driver and driver_config are unchanged: the manager
\* then owns the device that get_impl of the new config returns, not yet
\* opened, which the next activate() opens.
C20_ReloadFromOffSelectsDevice ==
    [][(/\ lastCall' = "reload_config" /\ ~active
        /\ config.mode = MODE_OFF /\ config'.mode # MODE_OFF)
          => /\ impl' = get_impl(config', hw)
             /\ active_config' = config']_vars

\* C13: the bodies of the public methods exclude each other: at most one
\* thread is inside a body and it owns the lock; a thread that reads
\* is_running inside a body gets the lock it holds once more and keeps it
\* when it leaves the inner "with"; and what the reader sees is never the
\* state in the middle of another call: not active with a real device that
\* the activation sequence has not opened yet, and not mode Off with a real
\* device still owned.
C13_BodiesExclusive ==
    /\ \A t1, t2 \in Threads : (InBody(t1) /\ InBody(t2)) => t1 = t2
    /\ \A t \in Threads : InBody(t) <=> lock.owner = t
    /\ pc["liveness"] = "is_running" => (CanAcquire("liveness") /\ lock.count = 1)
    /\ pc["liveness"] = "is_running_234" => lock.count = 2
    /\ seen.active => (seen.is_null \/ seen.is_running)
    /\ seen.mode = MODE_OFF => seen.is_null

\* The liveness thread has taken the lock a second time inside keepalive()
\* or activate(), the other threads being outside, after the reader saw an
\* armed manager and the reload thread changed the driver selection.
C13_Witness ==
    /\ pc["liveness"] = "is_running_234" /\ lock.count = 2
    /\ pc["reload"] = "idle" /\ pc["reader"] = "idle"
    /\ seen.active /\ seen.is_running
    /\ active /\ is_running(impl) /\ DevId(impl) # DevId(get_impl(config, hw))

====
